---------------------------- MODULE Spec2Model ----------------------------
(***************************************************************************)
(* Model of cinder/volume/drivers/rbd2.py (class RBDDriver2):              *)
(*   initialize_connection  builds the connection descriptor,              *)
(*   _connect_device        attaches (connector, symlink, validation),     *)
(*   _detach_volume         detaches (base detach, symlink removal).       *)
(* Several workers run attach/detach cycles against one host namespace.    *)
(* A worker's step is one blocking external call of the handler together   *)
(* with the straight-line code that follows it up to the next call or the  *)
(* handler's return.                                                       *)
(***************************************************************************)
EXTENDS Naturals, Sequences, FiniteSets, TLC

VARIABLES
    configuration,  \* self.configuration (rbd_pool, rbd_cluster_name, ...)
    fs,             \* host namespace: path -> entry
    pc,             \* per worker: position in its attach/detach cycle
    volume,         \* per worker: the volume given to initialize_connection
    conn,           \* per worker: the descriptor given to _connect_device
    device,         \* per worker: device['path'] returned by connect_volume
    attach_info,    \* per worker: the attach record built by _connect_device
    unavailable,    \* per worker: local `unavailable` of _connect_device
    raised,         \* per worker: the exception the last handler ended with
    calls,          \* per worker: external calls of the current handler
    connected,      \* per worker: the connector holds a connected device
    detaches,       \* per worker: _detach_volume invocations on the record
    overlapped      \* per worker: a cycle of another worker for the same
                    \* volume id ran while this worker's cycle did (history)

vars == <<configuration, fs, pc, volume, conn, device, attach_info,
          unavailable, raised, calls, connected, detaches, overlapped>>

-----------------------------------------------------------------------------
(* Bounds *)

\* number of raw device paths the connector may hand out
NumRawDevices == 2

\* how many times one attach record may be handed to _detach_volume
MaxDetach == 2

-----------------------------------------------------------------------------
(* Values *)

\* Python's None
None == "None"

Procs == {"p1", "p2"}

\* Python truthiness of an optional string
Truthy(x) == x # None /\ x # ""

RawPaths == {"/dev/rbd" \o ToString(i) : i \in 0 .. (NumRawDevices - 1)}

\* volumes: id, name, encryption_key_id
Volumes ==
    { [id |-> "vol1", name |-> "volume-vol1", encryption_key_id |-> None],
      [id |-> "vol2", name |-> "volume-vol2", encryption_key_id |-> "key1"],
      [id |-> "vol3", name |-> "volume-vol3", encryption_key_id |-> "key2"] }

VolumeIds == {v.id : v \in Volumes}

\* rbd_user: unset (no default), set to the empty string, set to a name
RbdUsers == {None, "", "cinder"}

\* RBD_OPTS as resolved options: rbd_pool and rbd_cluster_name have defaults
\* ('rbd', 'ceph'), rbd_user and rbd_secret_uuid have none
Configurations ==
    { [rbd_pool |-> pool, rbd_cluster_name |-> "ceph",
       rbd_user |-> u, rbd_secret_uuid |-> uuid] :
         pool \in {"rbd", "volumes"}, u \in RbdUsers, uuid \in {None, "abc"} }

\* the configuration the attach/detach cycles run under
HostConfiguration ==
    [rbd_pool |-> "rbd", rbd_cluster_name |-> "ceph",
     rbd_user |-> "cinder", rbd_secret_uuid |-> "abc"]

\* monitor addresses of the cluster (base driver query)
_get_mon_addrs == [hosts |-> <<"mon1">>, ports |-> <<"6789">>]

-----------------------------------------------------------------------------
(* initialize_connection *)

\* variant: auth_enabled by the truth value of rbd_user
auth_enabled_truthy(cfg) == Truthy(cfg.rbd_user)

\* line 110: (self.configuration.rbd_user is not None)
auth_enabled_of(cfg) == cfg.rbd_user # None

\* variant: an unset rbd_user is passed on as the empty string
auth_username_defaulted(cfg) == IF cfg.rbd_user = None THEN "" ELSE cfg.rbd_user

\* line 111: self.configuration.rbd_user
auth_username_of(cfg) == cfg.rbd_user

\* line 115: True if volume.encryption_key_id else False
encrypted_of(vol) == IF Truthy(vol.encryption_key_id) THEN TRUE ELSE FALSE

\* variant: local attach is never requested
do_local_attach_never(vol) == FALSE

\* line 116: True if volume.encryption_key_id else False
do_local_attach_of(vol) == IF Truthy(vol.encryption_key_id) THEN TRUE ELSE FALSE

initialize_connection(cfg, vol) ==
    [ driver_volume_type |-> "rbd",
      data |->
        [ name            |-> cfg.rbd_pool \o "/" \o vol.name,
          hosts           |-> _get_mon_addrs.hosts,
          ports           |-> _get_mon_addrs.ports,
          cluster_name    |-> cfg.rbd_cluster_name,
          auth_enabled    |-> auth_enabled_of(cfg),
          auth_username   |-> auth_username_of(cfg),
          secret_type     |-> "ceph",
          secret_uuid     |-> cfg.rbd_secret_uuid,
          volume_id       |-> vol.id,
          encrypted       |-> encrypted_of(vol),
          do_local_attach |-> do_local_attach_of(vol) ] ]

-----------------------------------------------------------------------------
(* Host namespace *)

\* variant: the link name is not keyed by the volume id
symlink_dev_unkeyed(volume_id) == "/dev/rbd-volume"

\* '/dev/rbd-volume-%s' % conn['data']['volume_id']
symlink_dev(volume_id) == "/dev/rbd-volume-" \o volume_id

SymlinkPaths == {symlink_dev(id) : id \in VolumeIds}

Paths == RawPaths \cup SymlinkPaths

Absent == [kind |-> "absent"]
DevNode == [kind |-> "dev"]
File == [kind |-> "file"]
Link(target) == [kind |-> "link", target |-> target]

\* variant: the operands of ln in the wrong order
ln_force_swapped(ns, target, linkname) == [ns EXCEPT ![target] = Link(linkname)]

\* ln --symbolic --force target linkname
ln_force(ns, target, linkname) == [ns EXCEPT ![linkname] = Link(target)]

\* variant: ln without --force, for which an existing link name is an error
ln_result_without_force(ns, linkname, fault) ==
    IF fault \/ ns[linkname] # Absent THEN "raises" ELSE "created"

\* what `ln --symbolic --force target linkname` reports: with --force an
\* existing file or symlink at linkname is replaced; fault is a failure of
\* another kind (such as a permission failure), for which utils.execute raises
ln_force_result(ns, linkname, fault) ==
    IF fault THEN "raises"
    ELSE IF ns[linkname] = Absent THEN "created"
    ELSE "replaced"

\* variant: the removal does not happen
rm_force_noop(ns, path) == ns

\* rm --force path
rm_force(ns, path) == [ns EXCEPT ![path] = Absent]

\* variant: rm without --force, for which a missing operand is an error
rm_result_without_force(ns, path, fault) ==
    IF fault \/ ns[path] = Absent THEN "raises" ELSE "removed"

\* what `rm --force path` reports: with --force a missing operand is ignored
\* and the command still exits 0; fault is a failure of another kind (such as
\* a permission failure), for which utils.execute raises
rm_force_result(ns, path, fault) ==
    IF fault THEN "raises"
    ELSE IF ns[path] = Absent THEN "missing_ignored"
    ELSE "removed"

-----------------------------------------------------------------------------
(* Call log entries *)

\* fault: the environment made the call fail; result: what the call gave
Call(fn, args, fault, result) ==
    [fn |-> fn, args |-> args, fault |-> fault, result |-> result]

Fns(log) == [i \in DOMAIN log |-> log[i].fn]

Last(log) == log[Len(log)]

CountCalls(log, fn) == Cardinality({i \in DOMAIN log : log[i].fn = fn})

-----------------------------------------------------------------------------
(* Initial state *)

\* the namespace before any attach: the raw device nodes, nothing at the
\* symlink paths except, possibly, a file that something else left at one
EmptyNamespace == [p \in Paths |-> IF p \in RawPaths THEN DevNode ELSE Absent]

InitialNamespaces ==
    {EmptyNamespace, [EmptyNamespace EXCEPT ![symlink_dev("vol3")] = File]}

Idle ==
    /\ fs \in InitialNamespaces
    /\ pc = [p \in Procs |-> "idle"]
    /\ volume = [p \in Procs |-> None]
    /\ conn = [p \in Procs |-> None]
    /\ device = [p \in Procs |-> None]
    /\ attach_info = [p \in Procs |-> None]
    /\ unavailable = [p \in Procs |-> FALSE]
    /\ raised = [p \in Procs |-> None]
    /\ calls = [p \in Procs |-> <<>>]
    /\ connected = [p \in Procs |-> FALSE]
    /\ detaches = [p \in Procs |-> 0]
    /\ overlapped = [p \in Procs |-> FALSE]

Init ==
    /\ configuration = HostConfiguration
    /\ Idle

\* initial states of the descriptor builder taken alone: any configuration
InitBuild ==
    /\ configuration \in Configurations
    /\ Idle

-----------------------------------------------------------------------------
(* Actions *)

\* the caller builds a descriptor for a volume and hands it to _connect_device
InitializeConnection(p) ==
    /\ pc[p] = "idle"
    /\ \E v \in Volumes :
          /\ volume' = [volume EXCEPT ![p] = v]
          /\ conn' = [conn EXCEPT ![p] = initialize_connection(configuration, v)]
          /\ LET same == {q \in Procs \ {p} : pc[q] # "idle" /\ volume[q].id = v.id}
             IN overlapped' = [q \in Procs |->
                                 IF q = p THEN same # {}
                                 ELSE overlapped[q] \/ q \in same]
    /\ pc' = [pc EXCEPT ![p] = "ready"]
    /\ calls' = [calls EXCEPT ![p] = <<>>]
    /\ UNCHANGED <<configuration, fs, device, attach_info, unavailable,
                   raised, connected, detaches>>

\* variant: the record always names the symlink path
plain_attach_info_symlink(c, dev, connector) ==
    [conn |-> c, device |-> symlink_dev(c.data.volume_id), connector |-> connector]

\* line 133: attach_info of a plaintext attach; 'device' is device['path']
plain_attach_info(c, dev, connector) ==
    [conn |-> c, device |-> dev, connector |-> connector]

\* line 140: attach_info of an encrypted attach; 'device' is {'path': symlink_dev}
encrypted_attach_info(c, link, connector) ==
    [conn |-> c, device |-> [path |-> link], connector |-> connector]

\* variant: the symlink is made for every volume
symlink_branch_always(c) == TRUE

\* line 135: if conn['data']['encrypted']
symlink_branch(c) == c.data.encrypted

\* variant: validation runs for every volume
validation_branch_always(c) == TRUE

\* line 142: if not conn['data']['encrypted']
validation_branch(c) == ~c.data.encrypted

\* position after line 140 (or after a skipped symlink branch)
after_symlink(c) == IF validation_branch(c) THEN "validating" ELSE "attached"

\* position after line 133
after_connect(c) == IF symlink_branch(c) THEN "linking" ELSE after_symlink(c)

\* variant: an error of the check leaves the device classified available
unavailable_after_fail_open(check) == ~(check = "invalid")

\* lines 144-149: `unavailable` after the try block; check is the outcome of
\* connector.check_valid_device: "valid", "invalid" or "raises"
unavailable_after(check) == IF check = "raises" THEN TRUE ELSE ~(check = "valid")

\* variant: the guard without its second operand
device_unavailable_guard_plain(c, unavail) ==
    IF unavail THEN "DeviceUnavailable" ELSE "pass"

\* line 153: `if unavailable and conn['encrypted']` (short-circuit `and`; a
\* subscript of a missing key raises KeyError); what the statement does
device_unavailable_guard(c, unavail) ==
    IF ~unavail THEN "pass"
    ELSE IF "encrypted" \notin DOMAIN c THEN "KeyError"
    ELSE IF c.encrypted THEN "DeviceUnavailable"
    ELSE "pass"

\* variant: a failed connect_volume is tried once more
ConnectVolumeRetrying(p) ==
    /\ pc[p] = "ready"
    /\ \/ /\ pc' = [pc EXCEPT ![p] = IF Len(calls[p]) = 0 THEN "ready" ELSE "attach_failed"]
          /\ raised' = [raised EXCEPT ![p] =
                           IF Len(calls[p]) = 0 THEN None ELSE "ConnectError"]
          /\ calls' = [calls EXCEPT ![p] =
                          Append(@, Call("connect_volume", <<conn[p].data>>, TRUE, "raises"))]
          /\ UNCHANGED <<device, connected, attach_info>>
       \/ \E r \in RawPaths :
             /\ device' = [device EXCEPT ![p] = r]
             /\ connected' = [connected EXCEPT ![p] = TRUE]
             /\ attach_info' = [attach_info EXCEPT ![p] = plain_attach_info(conn[p], r, p)]
             /\ pc' = [pc EXCEPT ![p] = after_connect(conn[p])]
             /\ calls' = [calls EXCEPT ![p] =
                             Append(@, Call("connect_volume", <<conn[p].data>>, FALSE, r))]
             /\ UNCHANGED raised
    /\ UNCHANGED <<configuration, fs, volume, conn, unavailable, detaches, overlapped>>

\* _connect_device up to line 133: connector.connect_volume(conn['data'])
ConnectVolume(p) ==
    /\ pc[p] = "ready"
    /\ \/ \* connect_volume raises: the exception leaves _connect_device
          /\ pc' = [pc EXCEPT ![p] = "attach_failed"]
          /\ raised' = [raised EXCEPT ![p] = "ConnectError"]
          /\ calls' = [calls EXCEPT ![p] =
                          Append(@, Call("connect_volume", <<conn[p].data>>, TRUE, "raises"))]
          /\ UNCHANGED <<device, connected, attach_info>>
       \/ \* connect_volume returns device = {'path': r}
          \E r \in RawPaths :
             /\ device' = [device EXCEPT ![p] = r]
             /\ connected' = [connected EXCEPT ![p] = TRUE]
             /\ attach_info' = [attach_info EXCEPT ![p] = plain_attach_info(conn[p], r, p)]
             /\ pc' = [pc EXCEPT ![p] = after_connect(conn[p])]
             /\ calls' = [calls EXCEPT ![p] =
                             Append(@, Call("connect_volume", <<conn[p].data>>, FALSE, r))]
             /\ UNCHANGED raised
    /\ UNCHANGED <<configuration, fs, volume, conn, unavailable, detaches, overlapped>>

\* variant: a failed ln is followed by a disconnect of the connector
CreateSymlinkWithRollback(p) ==
    /\ pc[p] = "linking"
    /\ \E fault \in BOOLEAN :
          LET link == symlink_dev(conn[p].data.volume_id)
              result == ln_force_result(fs, link, fault)
          IN IF result = "raises"
               THEN /\ calls' = [calls EXCEPT ![p] =
                                   Append(Append(@, Call("ln", <<device[p], link>>, fault, result)),
                                          Call("disconnect_volume", <<conn[p].data>>, FALSE, "ok"))]
                    /\ connected' = [connected EXCEPT ![p] = FALSE]
                    /\ pc' = [pc EXCEPT ![p] = "attach_failed"]
                    /\ raised' = [raised EXCEPT ![p] = "ProcessExecutionError"]
                    /\ UNCHANGED <<fs, attach_info>>
               ELSE /\ calls' = [calls EXCEPT ![p] =
                                   Append(@, Call("ln", <<device[p], link>>, fault, result))]
                    /\ fs' = ln_force(fs, device[p], link)
                    /\ attach_info' = [attach_info EXCEPT ![p] =
                                          encrypted_attach_info(conn[p], link, p)]
                    /\ pc' = [pc EXCEPT ![p] = after_symlink(conn[p])]
                    /\ UNCHANGED <<raised, connected>>
    /\ UNCHANGED <<configuration, volume, conn, device, unavailable, detaches, overlapped>>

\* lines 136-140: utils.execute('ln', '--symbolic', '--force', ...)
CreateSymlink(p) ==
    /\ pc[p] = "linking"
    /\ \E fault \in BOOLEAN :
          LET link == symlink_dev(conn[p].data.volume_id)
              result == ln_force_result(fs, link, fault)
          IN /\ calls' = [calls EXCEPT ![p] =
                            Append(@, Call("ln", <<device[p], link>>, fault, result))]
             /\ IF result = "raises"
                  THEN \* ProcessExecutionError leaves _connect_device
                       /\ pc' = [pc EXCEPT ![p] = "attach_failed"]
                       /\ raised' = [raised EXCEPT ![p] = "ProcessExecutionError"]
                       /\ UNCHANGED <<fs, attach_info>>
                  ELSE /\ fs' = ln_force(fs, device[p], link)
                       /\ attach_info' = [attach_info EXCEPT ![p] =
                                             encrypted_attach_info(conn[p], link, p)]
                       /\ pc' = [pc EXCEPT ![p] = after_symlink(conn[p])]
                       /\ UNCHANGED raised
    /\ UNCHANGED <<configuration, volume, conn, device, unavailable, connected,
                   detaches, overlapped>>

\* lines 143-161: validation of the device, the guard and the return;
\* root_access is `not self.secure_file_operations_enabled()`, a flag of the
\* base driver that is passed on to check_valid_device
ValidateDevice(p) ==
    /\ pc[p] = "validating"
    /\ \E root_access \in BOOLEAN, check \in {"valid", "invalid", "raises"} :
          LET host_device == device[p]
              unavail == unavailable_after(check)
              guard == device_unavailable_guard(conn[p], unavail)
          IN /\ calls' = [calls EXCEPT ![p] =
                            Append(@, Call("check_valid_device", <<host_device, root_access>>,
                                           check = "raises", check))]
             /\ unavailable' = [unavailable EXCEPT ![p] = unavail]
             /\ IF guard = "pass"
                  THEN /\ pc' = [pc EXCEPT ![p] = "attached"]
                       /\ UNCHANGED raised
                  ELSE /\ pc' = [pc EXCEPT ![p] = "attach_failed"]
                       /\ raised' = [raised EXCEPT ![p] = guard]
    /\ UNCHANGED <<configuration, fs, volume, conn, device, attach_info, connected,
                   detaches, overlapped>>

\* line 168: if attach_info['conn']['data']['encrypted']
removal_branch(info) == info.conn.data.encrypted

\* position after line 167
after_base_detach(info) == IF removal_branch(info) THEN "unlinking" ELSE "detached"

\* variant: a failure of the base detach is swallowed and the cleanup goes on
DetachBaseMasking(p) ==
    /\ pc[p] \in {"attached", "detached", "detach_failed"}
    /\ detaches[p] < MaxDetach
    /\ detaches' = [detaches EXCEPT ![p] = @ + 1]
    /\ \/ /\ calls' = [calls EXCEPT ![p] =
                          <<Call("_detach_volume", <<attach_info[p]>>, TRUE, "raises")>>]
          /\ pc' = [pc EXCEPT ![p] = after_base_detach(attach_info[p])]
          /\ raised' = [raised EXCEPT ![p] = None]
          /\ UNCHANGED connected
       \/ /\ calls' = [calls EXCEPT ![p] =
                          <<Call("_detach_volume", <<attach_info[p]>>, FALSE, "ok")>>]
          /\ connected' = [connected EXCEPT ![p] = FALSE]
          /\ pc' = [pc EXCEPT ![p] = after_base_detach(attach_info[p])]
          /\ raised' = [raised EXCEPT ![p] = None]
    /\ UNCHANGED <<configuration, fs, volume, conn, device, attach_info, unavailable,
                   overlapped>>

\* line 167: super()._detach_volume(...), then line 168
DetachBase(p) ==
    /\ pc[p] \in {"attached", "detached", "detach_failed"}
    /\ detaches[p] < MaxDetach
    /\ detaches' = [detaches EXCEPT ![p] = @ + 1]
    /\ \/ \* the base detach raises: the exception leaves _detach_volume
          /\ calls' = [calls EXCEPT ![p] =
                          <<Call("_detach_volume", <<attach_info[p]>>, TRUE, "raises")>>]
          /\ pc' = [pc EXCEPT ![p] = "detach_failed"]
          /\ raised' = [raised EXCEPT ![p] = "BaseDetachError"]
          /\ UNCHANGED connected
       \/ \* the base detach disconnects the connector's device
          /\ calls' = [calls EXCEPT ![p] =
                          <<Call("_detach_volume", <<attach_info[p]>>, FALSE, "ok")>>]
          /\ connected' = [connected EXCEPT ![p] = FALSE]
          /\ pc' = [pc EXCEPT ![p] = after_base_detach(attach_info[p])]
          /\ raised' = [raised EXCEPT ![p] = None]
    /\ UNCHANGED <<configuration, fs, volume, conn, device, attach_info, unavailable,
                   overlapped>>

\* line 169: utils.execute('rm', '--force', attach_info['device']['path'])
RemoveSymlink(p) ==
    /\ pc[p] = "unlinking"
    /\ \E fault \in BOOLEAN :
          LET path == attach_info[p].device.path
              result == rm_force_result(fs, path, fault)
          IN /\ calls' = [calls EXCEPT ![p] = Append(@, Call("rm", <<path>>, fault, result))]
             /\ IF result = "raises"
                  THEN \* ProcessExecutionError leaves _detach_volume
                       /\ pc' = [pc EXCEPT ![p] = "detach_failed"]
                       /\ raised' = [raised EXCEPT ![p] = "ProcessExecutionError"]
                       /\ UNCHANGED fs
                  ELSE /\ fs' = rm_force(fs, path)
                       /\ pc' = [pc EXCEPT ![p] = "detached"]
                       /\ UNCHANGED raised
    /\ UNCHANGED <<configuration, volume, conn, device, attach_info, unavailable,
                   connected, detaches, overlapped>>

\* the caller drops the descriptor and the record and starts over
Abandon(p) ==
    /\ pc[p] \in {"attached", "attach_failed", "detached", "detach_failed"}
    /\ pc' = [pc EXCEPT ![p] = "idle"]
    /\ volume' = [volume EXCEPT ![p] = None]
    /\ conn' = [conn EXCEPT ![p] = None]
    /\ device' = [device EXCEPT ![p] = None]
    /\ attach_info' = [attach_info EXCEPT ![p] = None]
    /\ unavailable' = [unavailable EXCEPT ![p] = FALSE]
    /\ raised' = [raised EXCEPT ![p] = None]
    /\ calls' = [calls EXCEPT ![p] = <<>>]
    /\ connected' = [connected EXCEPT ![p] = FALSE]
    /\ detaches' = [detaches EXCEPT ![p] = 0]
    /\ overlapped' = [overlapped EXCEPT ![p] = FALSE]
    /\ UNCHANGED <<configuration, fs>>

Next ==
    \E p \in Procs :
       \/ InitializeConnection(p)
       \/ ConnectVolume(p)
       \/ CreateSymlink(p)
       \/ ValidateDevice(p)
       \/ DetachBase(p)
       \/ RemoveSymlink(p)
       \/ Abandon(p)

Spec == Init /\ [][Next]_vars

\* initialize_connection applied to every configuration and volume
NextBuild == \E p \in Procs : InitializeConnection(p)

SpecBuild == InitBuild /\ [][NextBuild]_vars

-----------------------------------------------------------------------------
(* Properties of attach *)

\* the attach handler of worker p has ended (returned or raised)
AttachEnded(p) == pc[p] \in {"attached", "attach_failed"}

\* the call of fn in a log, if there is exactly one
TheCall(log, fn) == log[CHOOSE i \in DOMAIN log : log[i].fn = fn]

\* C1: every successful attach of an encrypted descriptor with volume id V
\* returns a record whose exposed device path is '/dev/rbd-volume-V', whatever
\* raw path connect_volume returned, and at the return a symlink at that path
\* targets the raw path connect_volume returned.
C1_EncryptedAttachExposesSymlink ==
    [][\A p \in Procs :
          (pc[p] # "attached" /\ pc'[p] = "attached" /\ conn[p].data.encrypted)
             => /\ attach_info'[p].device.path =
                      "/dev/rbd-volume-" \o conn[p].data.volume_id
                /\ fs'["/dev/rbd-volume-" \o conn[p].data.volume_id] =
                      [kind |-> "link", target |-> calls'[p][1].result]]_vars

C1_Witness ==
    \E p \in Procs :
       /\ pc[p] = "attached"
       /\ conn[p].data.encrypted
       /\ conn[p].data.volume_id = "vol2"
       /\ calls[p][1].result = "/dev/rbd1"
       /\ attach_info[p].device.path = "/dev/rbd-volume-vol2"
       /\ fs["/dev/rbd-volume-vol2"] = [kind |-> "link", target |-> "/dev/rbd1"]

\* C2: a plaintext attach in which check_valid_device returns false classifies
\* the device as unavailable, raises no exception and returns the attach record.
C2_InvalidPlaintextDeviceReturns ==
    \A p \in Procs :
       ( /\ AttachEnded(p)
         /\ ~conn[p].data.encrypted
         /\ Last(calls[p]).fn = "check_valid_device"
         /\ Last(calls[p]).result = "invalid" )
          => /\ unavailable[p]
             /\ raised[p] = None
             /\ pc[p] = "attached"

\* C3: when connect_volume fails, for an encrypted or a plaintext volume, the
\* attach fails at once with that failure: connect_volume is not called again,
\* neither ln nor check_valid_device is called, the namespace is unchanged, no
\* attach record exists, and the failed attach takes no further step.
C3_ConnectFailureIsFatal ==
    [][\A p \in Procs :
          /\ ( /\ pc[p] = "ready"
               /\ calls'[p] # calls[p]
               /\ Last(calls'[p]).fn = "connect_volume"
               /\ Last(calls'[p]).result = "raises" )
                => /\ pc'[p] = "attach_failed"
                   /\ raised'[p] = "ConnectError"
                   /\ Fns(calls'[p]) = <<"connect_volume">>
                   /\ attach_info'[p] = None
                   /\ fs' = fs
          /\ pc[p] = "attach_failed" => pc'[p] \in {"attach_failed", "idle"}]_vars

C3_Witness ==
    \E p, q \in Procs :
       /\ pc[p] = "attach_failed" /\ raised[p] = "ConnectError"
       /\ pc[q] = "attach_failed" /\ raised[q] = "ConnectError"
       /\ conn[p].data.encrypted
       /\ ~conn[q].data.encrypted
       /\ \A path \in SymlinkPaths : fs[path] = Absent

\* C6: every successful attach of a plaintext volume returns a record whose
\* exposed device path is the raw path connect_volume returned.
C6_PlaintextAttachExposesRawPath ==
    \A p \in Procs :
       (pc[p] = "attached" /\ ~conn[p].data.encrypted)
          => attach_info[p].device = calls[p][1].result

C6_Witness ==
    \E p \in Procs :
       /\ pc[p] = "attached"
       /\ ~conn[p].data.encrypted
       /\ calls[p][1].result = "/dev/rbd1"
       /\ attach_info[p].device = "/dev/rbd1"

\* C10: in an attach of an encrypted volume check_valid_device is never called,
\* and a successful connect_volume followed by a successful ln always gives an
\* attach record; in an attach of a plaintext volume whose connect_volume
\* succeeded, check_valid_device is called exactly once, on the raw path.
C10_ValidationOnlyForPlaintext ==
    \A p \in Procs :
       pc[p] \in {"linking", "validating", "attached", "attach_failed"} =>
          IF conn[p].data.encrypted
            THEN /\ CountCalls(calls[p], "check_valid_device") = 0
                 /\ ( /\ AttachEnded(p)
                      /\ Len(calls[p]) >= 2
                      /\ calls[p][1].result # "raises"
                      /\ calls[p][2].fn = "ln"
                      /\ calls[p][2].result # "raises" ) => pc[p] = "attached"
            ELSE (AttachEnded(p) /\ calls[p][1].result # "raises")
                    => /\ CountCalls(calls[p], "check_valid_device") = 1
                       /\ TheCall(calls[p], "check_valid_device").args[1] =
                             calls[p][1].result

C10_Witness ==
    \E p, q \in Procs :
       /\ pc[p] = "attached" /\ conn[p].data.encrypted
       /\ Fns(calls[p]) = <<"connect_volume", "ln">>
       /\ AttachEnded(q) /\ ~conn[q].data.encrypted
       /\ Fns(calls[q]) = <<"connect_volume", "check_valid_device">>

\* C12: an error raised by check_valid_device in a plaintext attach does not
\* reach the caller: the device is classified unavailable and the attach ends
\* as it does when check_valid_device returns false for the same descriptor
\* (the same raised condition, or the same returned record).
C12_CheckErrorEndsAsInvalid ==
    \A p \in Procs :
       ( /\ AttachEnded(p)
         /\ Last(calls[p]).fn = "check_valid_device"
         /\ Last(calls[p]).result = "raises" )
          => /\ unavailable[p]
             /\ \A q \in Procs :
                   ( /\ AttachEnded(q)
                     /\ conn[q] = conn[p]
                     /\ device[q] = device[p]
                     /\ Last(calls[q]).fn = "check_valid_device"
                     /\ Last(calls[q]).result = "invalid" )
                      => /\ pc[q] = pc[p]
                         /\ raised[q] = raised[p]
                         /\ unavailable[q] = unavailable[p]
                         /\ attach_info[q].device = attach_info[p].device
                         /\ attach_info[q].conn = attach_info[p].conn

C12_Witness ==
    \E p, q \in Procs :
       /\ AttachEnded(p) /\ AttachEnded(q)
       /\ conn[q] = conn[p]
       /\ device[q] = device[p]
       /\ Last(calls[p]).fn = "check_valid_device"
       /\ Last(calls[p]).result = "raises"
       /\ Last(calls[q]).fn = "check_valid_device"
       /\ Last(calls[q]).result = "invalid"

\* C13: no attach of a descriptor built by initialize_connection ends by
\* raising DeviceUnavailable, whatever connect_volume and check_valid_device do.
C13_DeviceUnavailableNeverRaised ==
    \A p \in Procs : raised[p] # "DeviceUnavailable"

C13_Witness ==
    \E p \in Procs :
       /\ pc[p] = "attach_failed"
       /\ "encrypted" \notin DOMAIN conn[p]
       /\ ~conn[p].data.encrypted
       /\ Last(calls[p]).fn = "check_valid_device"
       /\ unavailable[p]
       /\ raised[p] = "KeyError"

\* C19: an attach that fails after connect_volume succeeded (ln fails for an
\* encrypted volume, or the validation of a plaintext volume ends in a raised
\* condition) never disconnects the connector: the raw device is still
\* connected when the attach has ended without a record.
C19_NoTeardownOnFailedAttach ==
    \A p \in Procs :
       (pc[p] = "attach_failed" /\ calls[p][1].result # "raises")
          => /\ connected[p]
             /\ CountCalls(calls[p], "disconnect_volume") = 0
             /\ Len(calls[p]) = 2

C19_Witness ==
    \E p, q \in Procs :
       /\ pc[p] = "attach_failed" /\ pc[q] = "attach_failed"
       /\ conn[p].data.encrypted
       /\ raised[p] = "ProcessExecutionError"
       /\ connected[p]
       /\ ~conn[q].data.encrypted
       /\ raised[q] = "KeyError"
       /\ connected[q]

-----------------------------------------------------------------------------
(* Properties of detach *)

\* C4: after a successful detach of the record of an encrypted attach of
\* volume V, nothing is at '/dev/rbd-volume-V'.
C4_DetachRemovesSymlink ==
    [][\A p \in Procs :
          ( /\ pc[p] # "detached"
            /\ pc'[p] = "detached"
            /\ attach_info[p].conn.data.encrypted )
             => fs'["/dev/rbd-volume-" \o attach_info[p].conn.data.volume_id] =
                   [kind |-> "absent"]]_vars

C4_Witness ==
    \E p \in Procs :
       /\ pc[p] = "detached"
       /\ attach_info[p].conn.data.encrypted
       /\ Last(calls[p]).fn = "rm"
       /\ Last(calls[p]).result = "removed"
       /\ fs[attach_info[p].device.path] = Absent

\* C5: the removal of the symlink is idempotent: when nothing is at the path
\* (as in a second detach with the same encrypted record) and the removal
\* meets no other failure, the detach does not raise and leaves the namespace
\* unchanged; a removal failure of another kind reaches the caller.
C5_SymlinkRemovalIdempotent ==
    [][\A p \in Procs :
          (pc[p] = "unlinking" /\ pc'[p] # "unlinking") =>
             /\ (~Last(calls'[p]).fault /\ fs[attach_info[p].device.path] = Absent)
                   => /\ pc'[p] = "detached"
                      /\ raised'[p] = None
                      /\ fs' = fs
             /\ Last(calls'[p]).fault
                   => /\ pc'[p] = "detach_failed"
                      /\ raised'[p] = "ProcessExecutionError"]_vars

C5_Witness ==
    \E p \in Procs :
       /\ pc[p] = "detached"
       /\ detaches[p] = 2
       /\ attach_info[p].conn.data.encrypted
       /\ Last(calls[p]).fn = "rm"
       /\ Last(calls[p]).result = "missing_ignored"
       /\ raised[p] = None

\* C11: the base detach is called before anything is done to the symlink,
\* and its failure is not masked: when it fails, _detach_volume ends with that
\* failure, rm is not called and the namespace (so the symlink of an encrypted
\* record) is left as it is.
C11_BaseDetachFailurePropagates ==
    [][\A p \in Procs :
          /\ ( /\ calls'[p] # calls[p]
               /\ Len(calls'[p]) = 1
               /\ calls'[p][1].fn = "_detach_volume"
               /\ calls'[p][1].result = "raises" )
                => /\ pc'[p] = "detach_failed"
                   /\ raised'[p] = "BaseDetachError"
                   /\ fs' = fs
          /\ ( /\ calls'[p] # calls[p]
               /\ Len(calls'[p]) > 0
               /\ Last(calls'[p]).fn = "rm" )
                => /\ Fns(calls'[p]) = <<"_detach_volume", "rm">>
                   /\ calls'[p][1].result = "ok"]_vars

C11_Witness ==
    \E p \in Procs :
       /\ pc[p] = "detach_failed"
       /\ raised[p] = "BaseDetachError"
       /\ detaches[p] = 1
       /\ attach_info[p].conn.data.encrypted
       /\ Fns(calls[p]) = <<"_detach_volume">>
       /\ fs[attach_info[p].device.path] = [kind |-> "link", target |-> device[p]]

-----------------------------------------------------------------------------
(* Properties of the host namespace *)

\* the step is one of worker p
Acts(p) == pc'[p] # pc[p] \/ calls'[p] # calls[p] \/ detaches'[p] # detaches[p]

\* C14: writes of the namespace are confined to the encrypted branch: no step
\* of an attach or detach of a plaintext volume changes the namespace, a raw
\* device path is never changed, an entry becomes a symlink only by the ln of
\* an encrypted attach and an entry is removed only by the rm of a detach of
\* an encrypted record.
C14_NamespaceWritesOnlyWhenEncrypted ==
    [][/\ \A p \in Procs :
             (Acts(p) /\ pc[p] # "idle" /\ ~conn[p].data.encrypted) => fs' = fs
       /\ \A r \in RawPaths : fs'[r] = fs[r]
       /\ \A x \in Paths :
             fs'[x] # fs[x] =>
                \/ /\ fs'[x].kind = "link"
                   /\ \E p \in Procs :
                         /\ pc[p] = "linking"
                         /\ conn[p].data.encrypted
                         /\ calls'[p] # calls[p]
                         /\ Last(calls'[p]).fn = "ln"
                \/ /\ fs'[x].kind = "absent"
                   /\ \E p \in Procs :
                         /\ pc[p] = "unlinking"
                         /\ attach_info[p].conn.data.encrypted
                         /\ calls'[p] # calls[p]
                         /\ Last(calls'[p]).fn = "rm"]_vars

C14_Witness ==
    \E p, q \in Procs :
       /\ pc[p] = "detached"
       /\ ~conn[p].data.encrypted
       /\ Fns(calls[p]) = <<"_detach_volume">>
       /\ pc[q] = "attached"
       /\ conn[q].data.encrypted
       /\ fs[attach_info[q].device.path] = [kind |-> "link", target |-> device[q]]
       /\ fs[attach_info[p].device] = [kind |-> "dev"]

\* C15: a step of an attach or detach for volume id V changes nothing of the
\* namespace but '/dev/rbd-volume-V', and as long as no cycle of another
\* worker for the same volume id ran during a worker's cycle, the symlink of
\* that worker's returned and not yet detached encrypted record is present
\* and targets the record's own raw path.
C15_DistinctVolumesIndependent ==
    /\ [](\A p \in Procs :
             (pc[p] = "attached" /\ conn[p].data.encrypted /\ ~overlapped[p])
                => fs[attach_info[p].device.path] =
                      [kind |-> "link", target |-> device[p]])
    /\ [][\A p \in Procs :
             (Acts(p) /\ pc[p] # "idle") =>
                \A x \in Paths :
                   fs'[x] # fs[x] => x = "/dev/rbd-volume-" \o conn[p].data.volume_id]_vars

C15_Witness ==
    \E p, q \in Procs :
       /\ pc[p] = "attached" /\ pc[q] = "attached"
       /\ conn[p].data.volume_id = "vol2" /\ conn[q].data.volume_id = "vol3"
       /\ ~overlapped[p] /\ ~overlapped[q]
       /\ device[p] # device[q]
       /\ fs["/dev/rbd-volume-vol2"] = [kind |-> "link", target |-> device[p]]
       /\ fs["/dev/rbd-volume-vol3"] = [kind |-> "link", target |-> device[q]]

\* C16: nothing locks the symlink path: while a worker holds a returned and
\* not yet detached encrypted record of volume V, the rm of another worker's
\* detach for V and the ln of another worker's attach for V are not held back,
\* and they remove the record's symlink or point it at the other raw path.
C16_NoLockOnSymlinkPath ==
    \A p, q \in Procs :
       ( /\ p # q
         /\ pc[p] = "attached"
         /\ conn[p].data.encrypted
         /\ pc[q] \in {"linking", "unlinking"}
         /\ conn[q].data.volume_id = conn[p].data.volume_id )
          => /\ pc[q] = "unlinking" =>
                   ENABLED (RemoveSymlink(q) /\ fs'[attach_info[p].device.path] = Absent)
             /\ pc[q] = "linking" =>
                   ENABLED (CreateSymlink(q)
                              /\ fs'[attach_info[p].device.path] = Link(device[q]))

\* the state C16 says is reachable: the symlink of a held record is gone,
\* removed by the detach of the other worker's cycle for the same volume
C16_Witness ==
    \E p, q \in Procs :
       /\ p # q
       /\ pc[p] = "attached"
       /\ conn[p].data.encrypted
       /\ pc[q] = "detached"
       /\ conn[q].data.volume_id = conn[p].data.volume_id
       /\ Last(calls[q]).fn = "rm"
       /\ Last(calls[q]).result = "removed"
       /\ fs[attach_info[p].device.path] = Absent

\* C17: the symlink is made by a forced create-or-replace: an encrypted attach
\* of volume V whose ln meets no other failure succeeds also when a file or a
\* symlink is already at '/dev/rbd-volume-V', and afterwards the symlink
\* there targets the raw path of this (the most recent) attach.
C17_SymlinkCreateOrReplace ==
    [][\A p \in Procs :
          ( /\ pc[p] = "linking"
            /\ Acts(p)
            /\ fs["/dev/rbd-volume-" \o conn[p].data.volume_id] # Absent
            /\ ~Last(calls'[p]).fault )
             => /\ pc'[p] = "attached"
                /\ raised'[p] = None
                /\ fs'["/dev/rbd-volume-" \o conn[p].data.volume_id] =
                      [kind |-> "link", target |-> device[p]]]_vars

C17_Witness ==
    \E p, q \in Procs :
       /\ p # q
       /\ pc[p] = "attached" /\ pc[q] = "attached"
       /\ conn[p].data.encrypted
       /\ conn[q].data.volume_id = conn[p].data.volume_id
       /\ device[q] # device[p]
       /\ Last(calls[p]).fn = "ln"
       /\ Last(calls[p]).result = "replaced"
       /\ fs[attach_info[p].device.path] = [kind |-> "link", target |-> device[p]]

\* C18: no step that can fail follows a successful ln: an attach that creates
\* or replaces '/dev/rbd-volume-V' returns, on that step, a record naming that
\* path, and no failed attach has a successful ln among its calls.
C18_NoOrphanSymlink ==
    /\ [][\A p \in Procs :
             ( /\ pc[p] = "linking"
               /\ Acts(p)
               /\ Last(calls'[p]).result # "raises" )
                => /\ pc'[p] = "attached"
                   /\ attach_info'[p].device.path = Last(calls'[p]).args[2]
                   /\ fs'[Last(calls'[p]).args[2]] =
                         [kind |-> "link", target |-> device[p]]]_vars
    /\ [](\A p \in Procs :
             pc[p] = "attach_failed" =>
                \A i \in DOMAIN calls[p] :
                   calls[p][i].fn = "ln" => calls[p][i].result = "raises")

C18_Witness ==
    \E p, q \in Procs :
       /\ pc[p] = "attached"
       /\ Last(calls[p]).fn = "ln"
       /\ Last(calls[p]).result = "created"
       /\ fs[attach_info[p].device.path] = [kind |-> "link", target |-> device[p]]
       /\ pc[q] = "attach_failed"
       /\ Last(calls[q]).fn = "ln"
       /\ fs[symlink_dev(conn[q].data.volume_id)] = Absent

-----------------------------------------------------------------------------
(* Properties of the descriptor *)

\* C7: for every configuration and volume the built descriptor has encrypted
\* and do_local_attach both true when the volume has an encryption key
\* reference and both false otherwise, so the two are equal.
C7_EncryptedEqualsLocalAttach ==
    \A p \in Procs :
       pc[p] = "ready" =>
          /\ conn[p].data.encrypted = (volume[p].encryption_key_id # None)
          /\ conn[p].data.do_local_attach = (volume[p].encryption_key_id # None)
          /\ conn[p].data.encrypted = conn[p].data.do_local_attach

C7_Witness ==
    \E p, q \in Procs :
       /\ pc[p] = "ready" /\ pc[q] = "ready"
       /\ volume[p].encryption_key_id = "key1"
       /\ conn[p].data.encrypted /\ conn[p].data.do_local_attach
       /\ volume[q].encryption_key_id = None
       /\ ~conn[q].data.encrypted /\ ~conn[q].data.do_local_attach

\* C8 as stated: auth_enabled is true exactly when rbd_user is non-empty; an
\* unset and an empty rbd_user both give false.
C8_AuthEnabledIffUserNonEmpty ==
    \A p \in Procs :
       pc[p] = "ready" =>
          (conn[p].data.auth_enabled <=> configuration.rbd_user \notin {None, ""})

\* C8 amended: auth_enabled is true exactly when rbd_user is set (is not
\* None); an unset rbd_user gives false, the empty string gives true.
C8_AuthEnabledIffUserSet ==
    \A p \in Procs :
       pc[p] = "ready" =>
          (conn[p].data.auth_enabled <=> configuration.rbd_user # None)

C8_Witness ==
    \E p \in Procs :
       /\ pc[p] = "ready"
       /\ configuration.rbd_user = ""
       /\ conn[p].data.auth_enabled

\* C9: in every built descriptor auth_username has a value (is not None)
\* exactly when auth_enabled is true.
C9_AuthUsernameIffAuthEnabled ==
    \A p \in Procs :
       pc[p] = "ready" =>
          (conn[p].data.auth_username # None <=> conn[p].data.auth_enabled)

C9_Witness ==
    \E p \in Procs :
       /\ pc[p] = "ready"
       /\ configuration.rbd_user = None
       /\ ~conn[p].data.auth_enabled
       /\ conn[p].data.auth_username = None

=============================================================================
